---- MODULE Spec2Model ----
(***************************************************************************)
(* DocScribe: the pipeline orchestrator (main.py: main, process_file), the *)
(* generation client (api/openai_client.py: call_api,                      *)
(* fetch_documentation, summarize_text) and the file mutator               *)
(* (io/file_manager.py: backup_file), the chunking helper                  *)
(* (utils/context_helpers.py: chunk_text) and the insertion operations of  *)
(* the language parsers (parser/*_parser.py).                              *)
(*                                                                         *)
(* Every process_file call is an asyncio task.  Tasks are scheduled        *)
(* cooperatively: the code between two awaits runs without interleaving.   *)
(* `running` names the task that is executing such a stretch (0: the       *)
(* event loop is idle and any resumable task, or main, may be resumed).    *)
(*                                                                         *)
(* main.py calls the mutator as backup_file(file_path) followed by         *)
(* write_file_async(file_path, modified_code); write_file_async is not     *)
(* defined in the repository, and io/file_manager.py defines backup_file   *)
(* as the operation that makes the backup AND writes the new content.      *)
(* The mutate stage of process_file is therefore modelled as               *)
(* await backup_file(file_path, modified_code), whose result process_file  *)
(* does not look at.                                                       *)
(***************************************************************************)
EXTENDS Integers, Sequences, FiniteSets, TLC

\* ---------------------------------------------------------------- bounds
NumFiles == 2
MaxLen == 2
MaxRetry == 4
MaxSentences == 3
MaxSentenceLen == 2
MaxChunk == 4
MaxTokens == 3
MaxEntries == 2

\* ------------------------------------------------------ program constants
\* config.get("concurrency", ...): the configured gate size C
Concurrency == 1
\* fetch_documentation(..., retry=3), summarize_text(..., retry=3)
DefaultRetry == 3

Files == 1..NumFiles

\* ------------------------------------------------------- file contents
Alphabet == {"a", "b"}
Contents == UNION {[1..n -> Alphabet] : n \in 0..MaxLen}
\* os.path.exists(path) is False
NoFile == <<"ENOENT">>
\* what a write or a copy that fails part-way leaves behind
ProperPrefixes(s) == {SubSeq(s, 1, k) : k \in 0..(Len(s) - 1)}
Prefixes(s) == {SubSeq(s, 1, k) : k \in 0..Len(s)}

\* the file every task of a run starts from, and what the inserter makes of it
OrigContent == <<"a">>
Annotated(code) == <<"b">> \o code

VARIABLES
    pc,                  \* [Files -> position of the process_file task]
    running,             \* the task executing synchronous code, 0 if none
    lang,                \* [Files -> language tag of the file]
    structure,           \* [Files -> code_structure, while process_file reads it]
    session,             \* [Files -> "unopened" | "open" | "closed"]
    sem,                 \* [Files -> value of the semaphore handed to the current call]
    attempt,             \* [Files -> loop variable of the retry loop]
    retry,               \* [Files -> the retry argument of the current call]
    calls,               \* [Files -> call_api calls made by the current call]
    fails,               \* [Files -> how many of them returned None]
    doc,                 \* [Files -> the documentation fetch_documentation returned]
    delays,              \* [Files -> the delays slept, in order, by the call in
                         \*  progress or by the call that ended the file]
    file,                \* [Files -> content of the file at file_path]
    bak,                 \* [Files -> content of file_path + ".bak", or NoFile]
    newContent,          \* [Files -> the new_content argument of backup_file]
    preContent,          \* [Files -> content of the file when backup_file was called]
    logged,              \* [Files -> the error events logged for the file]
    outcome,             \* [Files -> how the task ended]
    completed,           \* tasks finished and not yet taken by as_completed
    documentation_data,  \* main's list of collected results (by file)
    mainpc,              \* position of main
    report,              \* what main hands to generate_documentation_report
    fnpc,                \* position of a helper called on its own
    text,                \* chunk_text: the sentences of the text argument
    max_length,          \* chunk_text: the max_length argument
    chunks,              \* chunk_text: the returned list, or Error
    adapter,             \* the language of the inserter that is called
    code,                \* inserter: the code argument (lines)
    documentation,       \* inserter: the documentation argument
    modified_code        \* inserter: the returned code (lines)

ctlVars == <<pc, running, outcome, completed>>
srcVars == <<lang, structure>>
genVars == <<session, sem, attempt, retry, calls, fails, doc, delays>>
fsVars == <<file, bak, newContent, preContent>>
mainVars == <<documentation_data, mainpc, report>>
fnVars == <<fnpc, text, max_length, chunks, adapter, code, documentation, modified_code>>
vars == <<pc, running, lang, structure, session, sem, attempt, retry, calls,
          fails, doc, delays, file, bak, newContent, preContent, logged,
          outcome, completed, documentation_data, mainpc, report,
          fnpc, text, max_length, chunks, adapter, code, documentation,
          modified_code>>

\* asyncio.run cancels every unfinished task once main has left by an
\* exception or the run was interrupted from outside
Cancelling == mainpc \in {"aborted", "interrupted"}

\* f is resumed from an await by the event loop
Resumes(f) == running = 0 /\ ~Cancelling
\* f goes on with the synchronous code it is executing
Continues(f) == running = f

\* f moves to position p; run = f if the code goes on without awaiting
Goto(f, p, run) ==
    /\ pc' = [pc EXCEPT ![f] = p]
    /\ running' = run
    /\ UNCHANGED <<outcome, completed>>

\* process_file returns (None for "skipped" and "failed", documentation for "done")
Return(f, how) ==
    /\ pc' = [pc EXCEPT ![f] = "returned"]
    /\ outcome' = [outcome EXCEPT ![f] = how]
    /\ completed' = Append(completed, f)
    /\ running' = 0

\* an exception leaves process_file: the task ends with that exception
Raise(f) ==
    /\ pc' = [pc EXCEPT ![f] = "raised"]
    /\ outcome' = [outcome EXCEPT ![f] = "raised"]
    /\ completed' = Append(completed, f)
    /\ running' = 0

\* CancelledError leaves process_file: the task ends cancelled
Cancelled(f) ==
    /\ pc' = [pc EXCEPT ![f] = "cancelled"]
    /\ outcome' = [outcome EXCEPT ![f] = "cancelled"]
    /\ running' = 0
    /\ UNCHANGED completed

Log(f, event) == logged' = [logged EXCEPT ![f] = @ \cup {event}]

\* ------------------------------------------------ utils/helper.py
Extensions == {".py", ".PY", ".ts", ".zz"}
\* ext.lower()
Lower(ext) == IF ext = ".PY" THEN ".py" ELSE ext
LANGUAGE_MAPPING ==
    [e \in {".py", ".js", ".jsx", ".ts", ".tsx", ".html", ".htm", ".css"} |->
        CASE e = ".py" -> "python"
          [] e \in {".js", ".jsx"} -> "javascript"
          [] e \in {".ts", ".tsx"} -> "typescript"
          [] e \in {".html", ".htm"} -> "html"
          [] OTHER -> "css"]
get_language_from_extension(ext) ==
    IF Lower(ext) \in DOMAIN LANGUAGE_MAPPING
    THEN LANGUAGE_MAPPING[Lower(ext)]
    ELSE "unsupported"

\* ------------------------------------------------ api/openai_client.py
\* What the function_call arguments of a response decode to (json.loads):
\*   "empty_obj"  {}                 "non_dict"  a JSON value that is no object
\*   "no_elements"  an object whose elements list is empty
\*   "plain"      elements with descriptions, none of High relevance
\*   "high"       an element of High relevance, with a description
\*   "no_desc"    an element without a description
Payloads == {"empty_obj", "no_elements", "non_dict", "plain", "high", "no_desc"}
\* What call_api returns:
\*   "fail"   None (transport error or status other than 200)
\*   "empty"  a JSON body that is falsy ({} and the like)
\*   "no_choices", "no_function_call", "bad_json"  a body that cannot be parsed
\*   a payload: a body whose function_call arguments decode to it
Responses == {"fail", "empty", "no_choices", "no_function_call", "bad_json"} \cup Payloads
\* `if response:`
Truthy(r) == r \notin {"fail", "empty"}
\* lines 68-80: the documentation, or None ("none") for a body that cannot be parsed
ParseResponse(r) == IF r \in Payloads THEN r ELSE "none"
\* session.post on a closed session raises at once; call_api returns None
CallApiResponses(s) == IF s = "open" THEN Responses ELSE {"fail"}

\* what call_api returns to summarize_text: None, a falsy body, a body
\* without choices/message/content, or a body carrying the summary
SummaryResponses(s) ==
    IF s = "open" THEN {"fail", "empty", "no_choices", "summary"} ELSE {"fail"}

\* fetch_documentation, lines 55-66: one more attempt: enter the gate
\* (`async with semaphore`) and call the service; a caller that finds no
\* permit stays suspended here
GenAcquire(f) ==
    /\ pc[f] = "gen_acquire"
    /\ Continues(f) \/ Resumes(f)
    /\ IF sem[f] > 0
       THEN /\ sem' = [sem EXCEPT ![f] = @ - 1]
            /\ calls' = [calls EXCEPT ![f] = @ + 1]
            /\ Goto(f, "gen_call", 0)
       ELSE /\ running' = 0
            /\ UNCHANGED <<pc, outcome, completed, sem, calls>>
    /\ UNCHANGED <<session, attempt, retry, fails, doc, delays, srcVars, fsVars, logged, mainVars, fnVars>>

\* a backoff that grows linearly with the attempt number
GenResponseLinearBackoff(f) ==
    /\ pc[f] = "gen_call"
    /\ Resumes(f)
    /\ \E r \in CallApiResponses(session[f]) :
         IF ~Truthy(r)
         THEN /\ fails' = [fails EXCEPT ![f] = IF r = "fail" THEN @ + 1 ELSE @]
              /\ delays' = [delays EXCEPT ![f] = Append(@, 1 + attempt[f])]
              /\ Goto(f, "gen_sleep", 0)
              /\ UNCHANGED <<sem, doc, logged>>
         ELSE /\ sem' = [sem EXCEPT ![f] = @ + 1]
              /\ doc' = [doc EXCEPT ![f] = ParseResponse(r)]
              /\ Goto(f, "after_gen", f)
              /\ UNCHANGED <<fails, delays, logged>>
    /\ UNCHANGED <<session, attempt, retry, calls, srcVars, fsVars, mainVars, fnVars>>

\* fetch_documentation, lines 66-82: call_api has returned.  A falsy
\* response leads to the backoff sleep (inside the gate); any other response
\* ends the call: with the decoded documentation, or with None
GenResponse(f) ==
    /\ pc[f] = "gen_call"
    /\ Resumes(f)
    /\ \E r \in CallApiResponses(session[f]) :
         IF ~Truthy(r)
         THEN /\ fails' = [fails EXCEPT ![f] = IF r = "fail" THEN @ + 1 ELSE @]
              /\ delays' = [delays EXCEPT ![f] = Append(@, 2 ^ attempt[f])]
              /\ Goto(f, "gen_sleep", 0)
              /\ UNCHANGED <<sem, doc, logged>>
         ELSE /\ sem' = [sem EXCEPT ![f] = @ + 1]
              /\ doc' = [doc EXCEPT ![f] = ParseResponse(r)]
              /\ Goto(f, "after_gen", f)
              /\ UNCHANGED <<fails, delays, logged>>
    /\ UNCHANGED <<session, attempt, retry, calls, srcVars, fsVars, mainVars, fnVars>>

\* a retry loop that runs one attempt too many
GenWakeOneMore(f) ==
    /\ pc[f] = "gen_sleep"
    /\ Resumes(f)
    /\ sem' = [sem EXCEPT ![f] = @ + 1]
    /\ attempt' = [attempt EXCEPT ![f] = @ + 1]
    /\ IF attempt[f] + 1 <= retry[f]
       THEN /\ Goto(f, "gen_acquire", f)
            /\ UNCHANGED doc
       ELSE /\ doc' = [doc EXCEPT ![f] = "none"]
            /\ Goto(f, "after_gen", f)
    /\ UNCHANGED <<session, retry, calls, fails, delays, srcVars, fsVars, logged, mainVars, fnVars>>

\* fetch_documentation, lines 82-83 and 55: the backoff sleep is over, the
\* gate is left, and `for attempt in range(retry)` either starts the next
\* attempt or is exhausted (return None)
GenWake(f) ==
    /\ pc[f] = "gen_sleep"
    /\ Resumes(f)
    /\ sem' = [sem EXCEPT ![f] = @ + 1]
    /\ attempt' = [attempt EXCEPT ![f] = @ + 1]
    /\ IF attempt[f] + 1 < retry[f]
       THEN /\ Goto(f, "gen_acquire", f)
            /\ UNCHANGED doc
       ELSE /\ doc' = [doc EXCEPT ![f] = "none"]
            /\ Goto(f, "after_gen", f)
    /\ UNCHANGED <<session, retry, calls, fails, delays, srcVars, fsVars, logged, mainVars, fnVars>>

\* summarize_text, lines 99-125: one attempt: enter the gate and call the
\* service.  A falsy response leads to the backoff sleep; any other response
\* ends the call (the summary, or None for a body without message content)
SumCall(f) ==
    /\ pc[f] = "sum_acquire"
    /\ Continues(f) \/ Resumes(f)
    /\ IF sem[f] > 0
       THEN /\ calls' = [calls EXCEPT ![f] = @ + 1]
            /\ \E r \in SummaryResponses(session[f]) :
                 IF ~Truthy(r)
                 THEN /\ sem' = [sem EXCEPT ![f] = @ - 1]
                      /\ delays' = [delays EXCEPT ![f] = Append(@, 2 ^ attempt[f])]
                      /\ Goto(f, "sum_sleep", 0)
                      /\ UNCHANGED doc
                 ELSE /\ doc' = [doc EXCEPT ![f] = IF r = "summary" THEN "summarized" ELSE @]
                      /\ Goto(f, "chunk", f)
                      /\ UNCHANGED <<sem, delays>>
       ELSE /\ running' = 0
            /\ UNCHANGED <<pc, outcome, completed, sem, calls, doc, delays>>
    /\ UNCHANGED <<session, attempt, retry, fails, srcVars, fsVars, logged, mainVars, fnVars>>

\* summarize_text, lines 125-126 and 99: the backoff sleep is over
SumWake(f) ==
    /\ pc[f] = "sum_sleep"
    /\ Resumes(f)
    /\ sem' = [sem EXCEPT ![f] = @ + 1]
    /\ attempt' = [attempt EXCEPT ![f] = @ + 1]
    /\ IF attempt[f] + 1 < retry[f]
       THEN Goto(f, "sum_acquire", f)
       ELSE Goto(f, "chunk", f)
    /\ UNCHANGED <<session, retry, calls, fails, doc, delays, srcVars, fsVars, logged, mainVars, fnVars>>

\* ------------------------------------------------ io/file_manager.py
\* backup_file, lines 35-37: a backup left at backup_path is removed first
BkRemoveStale(f) ==
    /\ pc[f] = "bk_start"
    /\ Continues(f)
    /\ IF bak[f] = NoFile
       THEN /\ Goto(f, "bk_copy", f)
            /\ UNCHANGED <<bak, logged>>
       ELSE \E ok \in BOOLEAN :
              IF ok
              THEN /\ bak' = [bak EXCEPT ![f] = NoFile]
                   /\ Goto(f, "bk_copy", f)
                   /\ UNCHANGED logged
              ELSE /\ Log(f, "remove_error")
                   /\ Goto(f, "bk_except", f)
                   /\ UNCHANGED bak
    /\ UNCHANGED <<file, newContent, preContent, srcVars, genVars, mainVars, fnVars>>

\* backup_file, lines 38-42: shutil.copy(file_path, backup_path), then the
\* file is opened for writing (the first await of backup_file)
BkCopy(f) ==
    /\ pc[f] = "bk_copy"
    /\ Continues(f)
    /\ \E ok \in BOOLEAN :
         IF ok
         THEN /\ bak' = [bak EXCEPT ![f] = file[f]]
              /\ Goto(f, "bk_open", 0)
              /\ UNCHANGED logged
         ELSE /\ \E left \in {NoFile} \cup ProperPrefixes(file[f]) :
                    bak' = [bak EXCEPT ![f] = left]
              /\ Log(f, "copy_error")
              /\ Goto(f, "bk_except", f)
    /\ UNCHANGED <<file, newContent, preContent, srcVars, genVars, mainVars, fnVars>>

\* backup_file, line 42: aiofiles.open(file_path, "w") truncates the file;
\* the write is then awaited
BkOpenDone(f) ==
    /\ pc[f] = "bk_open"
    /\ Resumes(f)
    /\ \E ok \in BOOLEAN :
         IF ok
         THEN /\ file' = [file EXCEPT ![f] = <<>>]
              /\ Goto(f, "bk_write", 0)
              /\ UNCHANGED logged
         ELSE /\ Log(f, "write_error")
              /\ Goto(f, "bk_except", f)
              /\ UNCHANGED file
    /\ UNCHANGED <<bak, newContent, preContent, srcVars, genVars, mainVars, fnVars>>

\* backup_file, lines 43-44: f.write(new_content) and the close of the file;
\* a failing write leaves any part of new_content in the file
BkWriteDone(f) ==
    /\ pc[f] = "bk_write"
    /\ Resumes(f)
    /\ \E ok \in BOOLEAN :
         IF ok
         THEN /\ file' = [file EXCEPT ![f] = newContent[f]]
              /\ Goto(f, "bk_returned", f)
              /\ UNCHANGED logged
         ELSE /\ \E part \in ProperPrefixes(newContent[f]) \cup {<<>>} :
                    file' = [file EXCEPT ![f] = part]
              /\ Log(f, "write_error")
              /\ Goto(f, "bk_except", f)
    /\ UNCHANGED <<bak, newContent, preContent, srcVars, genVars, mainVars, fnVars>>

\* a rollback that restores the file but keeps the backup
BkRollbackKeepsBackup(f) ==
    /\ pc[f] = "bk_except"
    /\ Continues(f)
    /\ IF bak[f] = NoFile
       THEN UNCHANGED <<file, bak>>
       ELSE /\ file' = [file EXCEPT ![f] = bak[f]]
            /\ UNCHANGED bak
    /\ Goto(f, "bk_returned", f)
    /\ UNCHANGED <<logged, newContent, preContent, srcVars, genVars, mainVars, fnVars>>

\* backup_file, lines 46-51: the handler of every Exception of the try block:
\* restore the file from the backup if one exists, remove the backup, and
\* return normally (the exception is not raised again); a failure of the
\* restore itself leaves backup_file as an exception
BkRollback(f) ==
    /\ pc[f] = "bk_except"
    /\ Continues(f)
    /\ IF bak[f] = NoFile
       THEN /\ Goto(f, "bk_returned", f)
            /\ UNCHANGED <<file, bak, logged>>
       ELSE \E ok \in BOOLEAN :
              IF ok
              THEN /\ file' = [file EXCEPT ![f] = bak[f]]
                   /\ bak' = [bak EXCEPT ![f] = NoFile]
                   /\ Goto(f, "bk_returned", f)
                   /\ UNCHANGED logged
              ELSE /\ \E part \in ProperPrefixes(bak[f]) \cup {file[f]} :
                        file' = [file EXCEPT ![f] = part]
                   /\ Raise(f)
                   /\ UNCHANGED <<bak, logged>>
    /\ UNCHANGED <<newContent, preContent, srcVars, genVars, mainVars, fnVars>>

\* the task is cancelled while backup_file awaits the open or the write.
\* CancelledError is a BaseException from Python 3.8 on: `except Exception`
\* does not catch it and the task ends with the file as the interrupted
\* step left it.  On Python 3.7 (setup.py: python_requires >= 3.7) it is an
\* Exception and the handler of lines 46-51 runs.
BkCancel(f) ==
    /\ pc[f] \in {"bk_open", "bk_write"}
    /\ running = 0
    /\ Cancelling
    /\ \E left \in (IF pc[f] = "bk_open" THEN {file[f], <<>>}
                                        ELSE Prefixes(newContent[f])) :
         file' = [file EXCEPT ![f] = left]
    /\ \E caught \in BOOLEAN :
         IF caught
         THEN Goto(f, "bk_except", f)
         ELSE Cancelled(f)
    /\ UNCHANGED <<bak, newContent, preContent, logged, srcVars, genVars, mainVars, fnVars>>

\* the run is interrupted from outside (shutdown signal): asyncio.run
\* cancels main and every task
Interrupt ==
    /\ mainpc = "awaiting"
    /\ running = 0
    /\ mainpc' = "interrupted"
    /\ UNCHANGED <<ctlVars, srcVars, genVars, fsVars, logged, documentation_data, report, fnVars>>

\* ------------------------------------------- utils/context_helpers.py
\* A string is the sequence of its characters.  A sentence is a non-empty
\* string without a space; a text is given by the sentences
\* nltk.sent_tokenize finds in it, in order.
Letters == {"p", "q"}
Sentences == UNION {[1..n -> Letters] : n \in 1..MaxSentenceLen}
Texts == UNION {[1..n -> Sentences] : n \in 0..MaxSentences}
MaxLengths == -1..MaxChunk

\* a condition that forgets the separating space
FitsWithoutSeparator(current_chunk, sentence, max) ==
    Len(current_chunk) + Len(sentence) <= max

\* chunk_text, line 32
Fits(current_chunk, sentence, max) ==
    Len(current_chunk) + Len(sentence) + 1 <= max

\* chunk_text, lines 31-39: the loop over the sentences from the state
\* (chunks so far, current_chunk), and the append of the last chunk
RECURSIVE ChunkLoop(_, _, _, _)
ChunkLoop(sentences, current_chunk, acc, max) ==
    IF sentences = <<>>
    THEN IF current_chunk # <<>> THEN Append(acc, current_chunk) ELSE acc
    ELSE LET sentence == Head(sentences) IN
         IF Fits(current_chunk, sentence, max)
         THEN ChunkLoop(Tail(sentences),
                        IF current_chunk # <<>>
                        THEN current_chunk \o <<" ">> \o sentence
                        ELSE sentence,
                        acc, max)
         ELSE ChunkLoop(Tail(sentences), sentence, Append(acc, current_chunk), max)

\* chunk_text, lines 27-42
chunk_text(sentences, max) == ChunkLoop(sentences, <<>>, <<>>, max)

\* the call of chunk_text returns
ChunkText ==
    /\ fnpc = "chunk_call"
    /\ chunks' = chunk_text(text, max_length)
    /\ fnpc' = "chunk_done"
    /\ UNCHANGED <<text, max_length, adapter, code, documentation, modified_code>>
    /\ UNCHANGED <<ctlVars, srcVars, genVars, fsVars, logged, mainVars>>

\* ------------------------------------------------- parser/*_parser.py
\* A source text is the sequence of its tokens: a line break, the head of a
\* function declaration (its name and its parameter list, up to the opening
\* of the body, and the class it is a method of, "" for a function of the
\* top level), a comment of the source, or a documentation comment written
\* by an inserter.
NL == [kind |-> "nl", name |-> "", params |-> "", text |-> "", parent |-> ""]
Method(p, n, ps) == [kind |-> "decl", name |-> n, params |-> ps, text |-> "", parent |-> p]
Decl(n, ps) == Method("", n, ps)
SourceComment == [kind |-> "comment", name |-> "", params |-> "", text |-> "c", parent |-> ""]
Doc(t) == [kind |-> "doc", name |-> "", params |-> "", text |-> t, parent |-> ""]

SourceTokens ==
    {NL, Decl("f", "a"), Decl("f", "b"), Decl("g", "a"), Method("C", "f", "a"), SourceComment}
SourceTexts == UNION {[1..n -> SourceTokens] : n \in 0..MaxTokens}

\* the documentation argument: the 'summary' key ("absent" if there is no
\* such key) and its entries in the order they are listed: an entry with
\* parent "" is an entry of the 'functions' list, an entry with parent p is
\* an entry of the 'methods' list of the class p in the 'classes' list
DocEntries == [name : {"f", "g"}, docstring : {"", "D"}, parent : {"", "C"}]
Documentations ==
    [summary : {"absent", "", "S"},
     functions : UNION {[1..n -> DocEntries] : n \in 0..MaxEntries}]
IsFunctionEntry(e) == e.parent = ""
IsMethodEntry(e) == e.parent # ""
\* documentation.get('functions', [])
FunctionsOf(d) == SelectSeq(d.functions, IsFunctionEntry)
\* the 'methods' of the entries of documentation.get('classes', [])
MethodsOf(d) == SelectSeq(d.functions, IsMethodEntry)

Adapters == {"python", "java", "go", "cpp", "html", "css"}

\* css_parser.py lines 48-54, html_parser.py lines 42-49: the text of the
\* comment
CommentText(d) == IF d.summary = "absent" THEN <<>> ELSE <<"Summary: ", d.summary>>

\* css_parser.insert_comments, lines 47-57: comment + code
CssInsertComments(c, d) == <<Doc(CommentText(d)), NL>> \o c

\* html_parser.insert_comments, lines 39-57: the comment and a line break
\* are put before the contents of the document; into an empty document only
\* the comment is put.  (str(soup) writes the parsed document back; for the
\* tokens modelled here that is the text that was parsed.)
HtmlInsertComments(c, d) ==
    IF c # <<>> THEN <<Doc(CommentText(d)), NL>> \o c ELSE <<Doc(CommentText(d))>>

\* python_parser.insert_docstrings, lines 77-96: the key of an entry in
\* docstrings_mapping: the name of a function, "Class.method" for a method
PyMappingKey(e) == IF e.parent = "" THEN <<e.name>> ELSE <<e.parent, e.name>>
\* lines 101-105: the key a definition is looked up with.  The tree is the
\* one ast.parse returned at line 74, whose nodes have no 'parent'
\* attribute (set_parents is local to extract_structure, lines 24-27), so
\* getattr(node, 'parent', None) is None and the key is the bare name.
PyFullName(def) == <<def.name>>
\* lines 77-96: docstrings_mapping; a later entry of the same key replaces
\* an earlier one
PyHasDoc(d, n) ==
    \E i \in 1..Len(d.functions) :
        PyMappingKey(d.functions[i]) = n /\ d.functions[i].docstring # ""
PyDocOf(d, n) ==
    LET last == CHOOSE i \in 1..Len(d.functions) :
                    /\ PyMappingKey(d.functions[i]) = n /\ d.functions[i].docstring # ""
                    /\ \A j \in (i + 1)..Len(d.functions) :
                          ~(PyMappingKey(d.functions[j]) = n /\ d.functions[j].docstring # "")
    IN d.functions[last].docstring

\* the function definitions of a text, in order (ast.parse keeps no comment
\* and no layout)
RECURSIVE Declarations(_)
Declarations(c) ==
    IF c = <<>> THEN <<>>
    ELSE IF Head(c).kind = "decl" THEN <<Head(c)>> \o Declarations(Tail(c))
    ELSE Declarations(Tail(c))

\* python_parser.insert_docstrings, lines 99-122: every definition whose
\* name is in docstrings_mapping gets the docstring as the first statement
\* of its body; astor.to_source writes the tree in its own layout: one
\* definition after the other, two empty lines between them, a line break
\* at the end
RECURSIVE PyToSource(_, _)
PyToSource(defs, d) ==
    IF defs = <<>> THEN <<>>
    ELSE LET def == Head(defs)
             body == IF PyHasDoc(d, PyFullName(def))
                     THEN <<def, NL, Doc(PyDocOf(d, PyFullName(def))), NL>>
                     ELSE <<def, NL>>
         IN IF Len(defs) = 1 THEN body
            ELSE body \o <<NL, NL>> \o PyToSource(Tail(defs), d)
\* ast.parse(code), line 74, accepts the text: a line holds at most one
\* definition, and nothing stands before it or after a comment
PyParses(c) ==
    \A i \in 1..(Len(c) - 1) : c[i].kind = "nl" \/ (c[i].kind = "decl" /\ c[i + 1].kind # "decl")
\* python_parser.insert_docstrings, lines 73-126; a text that does not parse
\* is returned as it is (lines 124-126)
PyInsertDocstrings(c, d) == IF PyParses(c) THEN PyToSource(Declarations(c), d) ELSE c

\* code.split('\n') and '\n'.join(lines)
RECURSIVE SplitLines(_, _)
SplitLines(c, line) ==
    IF c = <<>> THEN <<line>>
    ELSE IF Head(c).kind = "nl" THEN <<line>> \o SplitLines(Tail(c), <<>>)
    ELSE SplitLines(Tail(c), Append(line, Head(c)))
RECURSIVE JoinLines(_)
JoinLines(lines) ==
    IF Len(lines) = 1 THEN lines[1]
    ELSE lines[1] \o <<NL>> \o JoinLines(Tail(lines))

\* java_parser.insert_docstrings, lines 107-124: a line that ends with a
\* declaration is a method definition; its name is what stands before the
\* first '(' of the line; with no enclosing class found the first entry of
\* 'functions' with that name is looked up, and its docstring, if not
\* empty, is put above the line (format_docstring_java, lines 146-151).
\* get_enclosing_class, lines 178-191, starts its walk at the line of the
\* declaration itself: that line ends with '{' and is no class line, so the
\* count of braces is -2 when the line of the class is reached and the
\* result is None for every declaration that opens its body.
JavaMethodName(line) == Declarations(line)[1].name
JavaIsMethodLine(line) == line # <<>> /\ line[Len(line)].kind = "decl"
JavaHasEntry(d, n) == \E i \in 1..Len(FunctionsOf(d)) : FunctionsOf(d)[i].name = n
JavaEntry(d, n) ==
    FunctionsOf(d)[CHOOSE i \in 1..Len(FunctionsOf(d)) :
                    /\ FunctionsOf(d)[i].name = n
                    /\ \A j \in 1..(i - 1) : FunctionsOf(d)[j].name # n]
JavaDocLines(line, d) ==
    IF /\ JavaIsMethodLine(line)
       /\ JavaHasEntry(d, JavaMethodName(line))
       /\ JavaEntry(d, JavaMethodName(line)).docstring # ""
    THEN <<(<<Doc("/**")>>), (<<Doc(JavaEntry(d, JavaMethodName(line)).docstring)>>), (<<Doc(" */")>>)>>
    ELSE <<>>
RECURSIVE JavaWithDocs(_, _)
JavaWithDocs(lines, d) ==
    IF lines = <<>> THEN <<>>
    ELSE JavaDocLines(Head(lines), d) \o <<Head(lines)>> \o JavaWithDocs(Tail(lines), d)
\* java_parser.insert_docstrings, lines 87-130
JavaInsertDocstrings(c, d) == JoinLines(JavaWithDocs(SplitLines(c, <<>>), d))

\* the patterns of go_parser.py line 97 and cpp_parser.py lines 99 and 123:
\* white space and the name stand before the '(' of a function, "Class::"
\* and the name before the '(' of a method of cpp_parser.py line 123
Matches(token, func) ==
    token.kind = "decl" /\ token.name = func.name /\ token.parent = func.parent
\* re.search(pattern, modified_code) of go_parser.py line 98 and
\* cpp_parser.py lines 100 and 124: the pattern is (?P<indent>\s*) followed
\* by the declaration, so the first match is the first declaration of that
\* name together with the white space that stands before it
RECURSIVE FirstMatch(_, _, _)
FirstMatch(c, n, indent) ==
    IF c = <<>> THEN <<>>
    ELSE IF Head(c).kind = "nl" THEN FirstMatch(Tail(c), n, Append(indent, NL))
    ELSE IF Matches(Head(c), n) THEN Append(indent, Head(c))
    ELSE FirstMatch(Tail(c), n, <<>>)
\* match.group("indent")
RECURSIVE IndentOf(_)
IndentOf(match) ==
    IF match # <<>> /\ Head(match).kind = "nl" THEN <<NL>> \o IndentOf(Tail(match)) ELSE <<>>

\* re.sub(pattern, replacement, modified_code): every match of the pattern
\* is replaced by the one replacement text
RECURSIVE ReSub(_, _, _, _)
ReSub(c, n, replacement, indent) ==
    IF c = <<>> THEN indent
    ELSE IF Head(c).kind = "nl" THEN ReSub(Tail(c), n, replacement, Append(indent, NL))
    ELSE IF Matches(Head(c), n)
         THEN replacement \o ReSub(Tail(c), n, replacement, <<>>)
    ELSE indent \o <<Head(c)>> \o ReSub(Tail(c), n, replacement, <<>>)

\* go_parser.py lines 100-103: indent, the docstring lines (each after the
\* indent), a line break, and the text of the match
GoReplacement(match, docstring) ==
    IndentOf(match) \o IndentOf(match) \o <<Doc(docstring), NL>> \o match
\* cpp_parser.py lines 102-105
CppReplacement(match, docstring) ==
    IndentOf(match) \o <<Doc("/**"), NL>>
        \o IndentOf(match) \o <<Doc(docstring), NL>>
        \o IndentOf(match) \o <<Doc("*/"), NL>> \o match

\* GoHandler.insert_docstrings, lines 93-104, and the loops of
\* CppHandler.insert_docstrings over the functions, lines 93-105, and over
\* the methods, lines 119-129: the entries one after the other, each
\* applied to the code so far
RECURSIVE RegexInsertDocstrings(_, _, _)
RegexInsertDocstrings(c, entries, lang_) ==
    IF entries = <<>> THEN c
    ELSE LET func == Head(entries)
             match == FirstMatch(c, func, <<>>)
             replacement == IF lang_ = "go" THEN GoReplacement(match, func.docstring)
                                            ELSE CppReplacement(match, func.docstring)
         IN IF func.docstring # "" /\ match # <<>>
            THEN RegexInsertDocstrings(ReSub(c, func, replacement, <<>>), Tail(entries), lang_)
            ELSE RegexInsertDocstrings(c, Tail(entries), lang_)

\* the insertion operation of each adapter
InsertDocumentation(a, c, d) ==
    CASE a = "python" -> PyInsertDocstrings(c, d)
      [] a = "java" -> JavaInsertDocstrings(c, d)
      [] a = "go" -> RegexInsertDocstrings(c, FunctionsOf(d), "go")
      [] a = "cpp" -> RegexInsertDocstrings(c, FunctionsOf(d) \o MethodsOf(d), "cpp")
      [] a = "html" -> HtmlInsertComments(c, d)
      [] OTHER -> CssInsertComments(c, d)

\* the call of the insertion operation returns
InsertCall ==
    /\ fnpc = "insert_call"
    /\ modified_code' = InsertDocumentation(adapter, code, documentation)
    /\ fnpc' = "insert_done"
    /\ UNCHANGED <<text, max_length, chunks, adapter, code, documentation>>
    /\ UNCHANGED <<ctlVars, srcVars, genVars, fsVars, logged, mainVars>>

\* ------------------------------------------------------------ main.py
\* the extraction dispatch of process_file, lines 79-89
HasExtractBranch(l) == l \in {"python", "javascript", "html", "css"}
\* the insertion dispatch of process_file, lines 137-150
HasInsertBranch(l) == l \in {"python", "javascript", "html", "css"}
\* clean_code and format_code as they answer when the tool has nothing to
\* change or fails (helper.py lines 49-51 and 72-77): the code as it is
FormattedCode(content) == content

\* process_file, lines 59-69: validation and language detection, up to the
\* await of read_file_async
Start(f) ==
    /\ pc[f] = "start"
    /\ Resumes(f)
    /\ \E valid \in BOOLEAN, ext \in Extensions :
         IF ~valid \/ get_language_from_extension(ext) = "unsupported"
         THEN /\ Return(f, "skipped")
              /\ UNCHANGED lang
         ELSE /\ lang' = [lang EXCEPT ![f] = get_language_from_extension(ext)]
              /\ Goto(f, "read", 0)
    /\ UNCHANGED <<structure, genVars, fsVars, logged, mainVars, fnVars>>

\* what the extractors return: None after an error ("none"), a structure
\* whose lists are all empty ("no_elements": {'functions': [], 'classes': []},
\* {'tags': []}, {'rules': []}), or a structure with elements
Structures == {"none", "no_elements", "elements"}
\* `if not code_structure`
StructureIsFalsy(st) == st = "none"

\* process_file, lines 69-89: the content was read; without content, or
\* without an extraction branch for the language, the file is skipped; else
\* the extractor of the language is called
ReadDone(f) ==
    /\ pc[f] = "read"
    /\ Resumes(f)
    /\ \E readOk \in BOOLEAN :
         IF \/ ~readOk
            \/ file[f] = <<>>
            \/ ~HasExtractBranch(lang[f])
         THEN /\ Return(f, "skipped")
              /\ UNCHANGED structure
         ELSE /\ \E st \in Structures : structure' = [structure EXCEPT ![f] = st]
              /\ Goto(f, "extracted", f)
    /\ UNCHANGED <<lang, genVars, fsVars, logged, mainVars, fnVars>>

\* process_file, lines 91-112: a falsy code_structure skips the file; else
\* the structure goes into the prompt (it is not read again), the session is
\* opened and fetch_documentation is called with a semaphore made for this
\* call
Extracted(f) ==
    /\ pc[f] = "extracted"
    /\ Continues(f)
    /\ IF StructureIsFalsy(structure[f])
       THEN /\ Return(f, "skipped")
            /\ UNCHANGED <<structure, genVars>>
       ELSE /\ structure' = [structure EXCEPT ![f] = "in_prompt"]
            /\ session' = [session EXCEPT ![f] = "open"]
            /\ sem' = [sem EXCEPT ![f] = Concurrency]
            /\ attempt' = [attempt EXCEPT ![f] = 0]
            /\ retry' = [retry EXCEPT ![f] = DefaultRetry]
            /\ calls' = [calls EXCEPT ![f] = 0]
            /\ fails' = [fails EXCEPT ![f] = 0]
            /\ delays' = [delays EXCEPT ![f] = <<>>]
            /\ Goto(f, "gen_acquire", f)
            /\ UNCHANGED doc
    /\ UNCHANGED <<lang, fsVars, logged, mainVars, fnVars>>

\* `if not documentation`: None and {} are falsy
DocumentationIsFalsy(d) == d \in {"none", "empty_obj"}

\* a process_file that goes on without documentation
AfterGenIgnoresNone(f) ==
    /\ pc[f] = "after_gen"
    /\ Continues(f)
    /\ session' = [session EXCEPT ![f] = "closed"]
    /\ calls' = [calls EXCEPT ![f] = 0]
    /\ fails' = [fails EXCEPT ![f] = 0]
    /\ attempt' = [attempt EXCEPT ![f] = 0]
    /\ Goto(f, "chunk", f)
    /\ UNCHANGED <<sem, retry, delays, doc, logged, srcVars, fsVars, mainVars, fnVars>>

\* process_file, lines 105-125: fetch_documentation has returned and the
\* session is closed; no documentation ends the file; the loop over the
\* elements calls summarize_text (with a semaphore made for this call) for
\* an element of High relevance
AfterGen(f) ==
    /\ pc[f] = "after_gen"
    /\ Continues(f)
    /\ session' = [session EXCEPT ![f] = "closed"]
    /\ calls' = [calls EXCEPT ![f] = 0]
    /\ fails' = [fails EXCEPT ![f] = 0]
    /\ attempt' = [attempt EXCEPT ![f] = 0]
    /\ IF DocumentationIsFalsy(doc[f])
       THEN /\ Return(f, "failed")
            /\ UNCHANGED <<sem, retry, delays>>
       ELSE IF doc[f] = "non_dict"
       THEN /\ Raise(f)
            /\ delays' = [delays EXCEPT ![f] = <<>>]
            /\ UNCHANGED <<sem, retry>>
       ELSE IF doc[f] = "high"
       THEN /\ sem' = [sem EXCEPT ![f] = Concurrency]
            /\ retry' = [retry EXCEPT ![f] = DefaultRetry]
            /\ delays' = [delays EXCEPT ![f] = <<>>]
            /\ Goto(f, "sum_acquire", f)
       ELSE /\ delays' = [delays EXCEPT ![f] = <<>>]
            /\ Goto(f, "chunk", f)
            /\ UNCHANGED <<sem, retry>>
    /\ UNCHANGED <<doc, logged, srcVars, fsVars, mainVars, fnVars>>

\* process_file, lines 129-134: description_chunks of every element; an
\* element without a description is read as element["description"]
Chunk(f) ==
    /\ pc[f] = "chunk"
    /\ Continues(f)
    /\ IF doc[f] = "no_desc"
       THEN Raise(f)
       ELSE Goto(f, "insert", f)
    /\ UNCHANGED <<srcVars, genVars, fsVars, logged, mainVars, fnVars>>

\* process_file, lines 136-153: the inserter of the language gives the
\* modified code, or (python_parser.py lines 124-126 and the like) logs its
\* error and gives the code back unchanged; backup_file is called next
Insert(f) ==
    /\ pc[f] = "insert"
    /\ Continues(f)
    /\ \E ok \in BOOLEAN :
         /\ newContent' = [newContent EXCEPT ![f] =
                IF ok /\ HasInsertBranch(lang[f])
                THEN Annotated(FormattedCode(file[f]))
                ELSE FormattedCode(file[f])]
         /\ IF ok THEN UNCHANGED logged ELSE Log(f, "insert_error")
    /\ preContent' = [preContent EXCEPT ![f] = file[f]]
    /\ Goto(f, "bk_start", f)
    /\ UNCHANGED <<file, bak, srcVars, genVars, mainVars, fnVars>>

\* process_file, lines 153-159: backup_file has returned; the
\* documentation is returned
Finish(f) ==
    /\ pc[f] = "bk_returned"
    /\ Continues(f)
    /\ Return(f, "done")
    /\ UNCHANGED <<srcVars, genVars, fsVars, logged, mainVars, fnVars>>

\* a cancellation that leaves the gate without giving the permit back
TaskCancelKeepsPermit(f) ==
    /\ pc[f] \in {"start", "read", "gen_acquire", "gen_call", "gen_sleep",
                  "sum_acquire", "sum_sleep"}
    /\ running = 0
    /\ Cancelling
    /\ session' = [session EXCEPT ![f] = IF @ = "open" THEN "closed" ELSE @]
    /\ Cancelled(f)
    /\ UNCHANGED <<sem, attempt, retry, calls, fails, doc, delays, srcVars, fsVars, logged, mainVars, fnVars>>

\* the task is cancelled at an await of process_file, fetch_documentation
\* or summarize_text: `async with` leaves the gate and closes the session
TaskCancel(f) ==
    /\ pc[f] \in {"start", "read", "gen_acquire", "gen_call", "gen_sleep",
                  "sum_acquire", "sum_sleep"}
    /\ running = 0
    /\ Cancelling
    /\ sem' = [sem EXCEPT ![f] =
                  IF pc[f] \in {"gen_call", "gen_sleep", "sum_sleep"} THEN @ + 1 ELSE @]
    /\ session' = [session EXCEPT ![f] = IF @ = "open" THEN "closed" ELSE @]
    /\ Cancelled(f)
    /\ UNCHANGED <<attempt, retry, calls, fails, doc, delays, srcVars, fsVars, logged, mainVars, fnVars>>

\* main, lines 195-198: as_completed gives the next finished task;
\* `await task` gives its result or raises its exception (main has no
\* handler: the exception leaves main); a truthy result is appended
MainCollect ==
    /\ mainpc = "awaiting"
    /\ running = 0
    /\ completed # <<>>
    /\ completed' = Tail(completed)
    /\ IF outcome[Head(completed)] = "raised"
       THEN /\ mainpc' = "aborted"
            /\ UNCHANGED documentation_data
       ELSE /\ documentation_data' =
                IF outcome[Head(completed)] = "done"
                THEN Append(documentation_data, Head(completed))
                ELSE documentation_data
            /\ UNCHANGED mainpc
    /\ UNCHANGED <<pc, running, outcome, report, srcVars, genVars, fsVars, logged, fnVars>>

\* main, lines 200-210: every task was awaited; without documentation main
\* returns, else the elements of the collected documentation are handed to
\* generate_documentation_report
MainReport ==
    /\ mainpc = "awaiting"
    /\ running = 0
    /\ completed = <<>>
    /\ \A f \in Files : pc[f] \in {"returned", "raised"}
    /\ IF documentation_data = <<>>
       THEN /\ mainpc' = "no_data"
            /\ UNCHANGED report
       ELSE /\ mainpc' = "done"
            /\ report' = [i \in 1..Len(documentation_data) |->
                            [file |-> documentation_data[i],
                             elements |-> doc[documentation_data[i]]]]
    /\ UNCHANGED <<ctlVars, documentation_data, srcVars, genVars, fsVars, logged, fnVars>>

\* ------------------------------------------------------------------
\* what every specification starts from: nothing has run yet
InitPipeline ==
    /\ lang = [f \in Files |-> "python"]
    /\ structure = [f \in Files |-> "unset"]
    /\ attempt = [f \in Files |-> 0]
    /\ calls = [f \in Files |-> 0]
    /\ fails = [f \in Files |-> 0]
    /\ doc = [f \in Files |-> "none"]
    /\ delays = [f \in Files |-> <<>>]
    /\ logged = [f \in Files |-> {}]
    /\ outcome = [f \in Files |-> "pending"]
    /\ completed = <<>>
    /\ documentation_data = <<>>
    /\ mainpc = "awaiting"
    /\ report = <<>>

\* no helper is called on its own
FnIdle ==
    /\ fnpc = "off"
    /\ text = <<>>
    /\ max_length = 0
    /\ chunks = <<>>
    /\ adapter = "none"
    /\ code = <<>>
    /\ documentation = [summary |-> "absent", functions |-> <<>>]
    /\ modified_code = <<>>

InitIdle ==
    /\ InitPipeline
    /\ FnIdle

\* backup_file(path, new_content) called on its own, for every content of
\* the target, every new content and every state of the backup path
InitMutator ==
    /\ InitIdle
    /\ session = [f \in Files |-> "closed"]
    /\ sem = [f \in Files |-> 0]
    /\ retry = [f \in Files |-> 0]
    /\ pc = [f \in Files |-> IF f = 1 THEN "bk_start" ELSE "off"]
    /\ running = 1
    /\ \E c \in Contents, n \in Contents, b \in Contents \cup {NoFile} :
         /\ file = [f \in Files |-> IF f = 1 THEN c ELSE OrigContent]
         /\ preContent = [f \in Files |-> IF f = 1 THEN c ELSE <<>>]
         /\ newContent = [f \in Files |-> IF f = 1 THEN n ELSE <<>>]
         /\ bak = [f \in Files |-> IF f = 1 THEN b ELSE NoFile]

NextMutator ==
    \/ \E f \in Files : BkRemoveStale(f)
    \/ \E f \in Files : BkCopy(f)
    \/ \E f \in Files : BkOpenDone(f)
    \/ \E f \in Files : BkWriteDone(f)
    \/ \E f \in Files : BkRollback(f)
    \/ \E f \in Files : BkCancel(f)
    \/ Interrupt

SpecMutator == InitMutator /\ [][NextMutator]_vars

\* ------------------------------------------------------------------
\* fetch_documentation called on its own, for every retry count, the
\* service answering each call in any way
InitFetch ==
    /\ InitIdle
    /\ pc = [f \in Files |-> IF f = 1 THEN "gen_acquire" ELSE "off"]
    /\ running = 1
    /\ session = [f \in Files |-> IF f = 1 THEN "open" ELSE "unopened"]
    /\ sem = [f \in Files |-> IF f = 1 THEN Concurrency ELSE 0]
    /\ \E R \in 1..MaxRetry : retry = [f \in Files |-> IF f = 1 THEN R ELSE 0]
    /\ file = [f \in Files |-> OrigContent]
    /\ bak = [f \in Files |-> NoFile]
    /\ newContent = [f \in Files |-> <<>>]
    /\ preContent = [f \in Files |-> <<>>]

NextFetch ==
    \/ \E f \in Files : GenAcquire(f)
    \/ \E f \in Files : GenResponse(f)
    \/ \E f \in Files : GenWake(f)

SpecFetch == InitFetch /\ [][NextFetch]_vars

\* ------------------------------------------------------------------
\* no process_file task and no main: a helper is called on its own
PipelineOff ==
    /\ InitPipeline
    /\ pc = [f \in Files |-> "off"]
    /\ running = 0
    /\ session = [f \in Files |-> "unopened"]
    /\ sem = [f \in Files |-> 0]
    /\ retry = [f \in Files |-> 0]
    /\ file = [f \in Files |-> OrigContent]
    /\ bak = [f \in Files |-> NoFile]
    /\ newContent = [f \in Files |-> <<>>]
    /\ preContent = [f \in Files |-> <<>>]

\* chunk_text(text, max_length) called on its own, for every text of up to
\* MaxSentences sentences and every max_length from -1 to MaxChunk
InitChunk ==
    /\ PipelineOff
    /\ fnpc = "chunk_call"
    /\ text \in Texts
    /\ max_length \in MaxLengths
    /\ chunks = <<>>
    /\ adapter = "none"
    /\ code = <<>>
    /\ documentation = [summary |-> "absent", functions |-> <<>>]
    /\ modified_code = <<>>

NextChunk == ChunkText

SpecChunk == InitChunk /\ [][NextChunk]_vars

\* the insertion operation of an adapter called on its own, for every
\* adapter, every source text of up to MaxTokens tokens and every
\* documentation of up to MaxEntries functions
InitInsert ==
    /\ PipelineOff
    /\ fnpc = "insert_call"
    /\ text = <<>>
    /\ max_length = 0
    /\ chunks = <<>>
    /\ adapter \in Adapters
    /\ code \in SourceTexts
    /\ documentation \in Documentations
    /\ modified_code = <<>>

NextInsert == InsertCall

SpecInsert == InitInsert /\ [][NextInsert]_vars

\* ------------------------------------------------------------------
\* process_file called for one file, on its own
InitProcess ==
    /\ InitIdle
    /\ pc = [f \in Files |-> IF f = 1 THEN "start" ELSE "off"]
    /\ running = 0
    /\ session = [f \in Files |-> "unopened"]
    /\ sem = [f \in Files |-> 0]
    /\ retry = [f \in Files |-> 0]
    /\ file = [f \in Files |-> OrigContent]
    /\ bak = [f \in Files |-> NoFile]
    /\ newContent = [f \in Files |-> <<>>]
    /\ preContent = [f \in Files |-> <<>>]

\* ... and left to run to its end: every await of process_file is answered
\* (the event loop resumes a task that is ready; a request ends with a
\* response, an error or the timeout of the session; a sleep ends)
NextFile ==
    \/ \E f \in Files : Start(f)
    \/ \E f \in Files : ReadDone(f)
    \/ \E f \in Files : Extracted(f)
    \/ \E f \in Files : GenAcquire(f)
    \/ \E f \in Files : GenResponse(f)
    \/ \E f \in Files : GenWake(f)
    \/ \E f \in Files : AfterGen(f)
    \/ \E f \in Files : SumCall(f)
    \/ \E f \in Files : SumWake(f)
    \/ \E f \in Files : Chunk(f)
    \/ \E f \in Files : Insert(f)
    \/ \E f \in Files : BkRemoveStale(f)
    \/ \E f \in Files : BkCopy(f)
    \/ \E f \in Files : BkOpenDone(f)
    \/ \E f \in Files : BkWriteDone(f)
    \/ \E f \in Files : BkRollback(f)
    \/ \E f \in Files : Finish(f)

SpecFile == InitProcess /\ [][NextFile]_vars /\ WF_vars(NextFile)

\* ... and cancelled at any await by an interruption of the run
NextProcess ==
    \/ \E f \in Files : Start(f)
    \/ \E f \in Files : ReadDone(f)
    \/ \E f \in Files : Extracted(f)
    \/ \E f \in Files : GenAcquire(f)
    \/ \E f \in Files : GenResponse(f)
    \/ \E f \in Files : GenWake(f)
    \/ \E f \in Files : AfterGen(f)
    \/ \E f \in Files : SumCall(f)
    \/ \E f \in Files : SumWake(f)
    \/ \E f \in Files : Chunk(f)
    \/ \E f \in Files : Insert(f)
    \/ \E f \in Files : BkRemoveStale(f)
    \/ \E f \in Files : BkCopy(f)
    \/ \E f \in Files : BkOpenDone(f)
    \/ \E f \in Files : BkWriteDone(f)
    \/ \E f \in Files : BkRollback(f)
    \/ \E f \in Files : BkCancel(f)
    \/ \E f \in Files : Finish(f)
    \/ \E f \in Files : TaskCancel(f)
    \/ Interrupt

SpecProcess == InitProcess /\ [][NextProcess]_vars

\* ------------------------------------------------------------------
\* the whole run: main has discovered the files and created one
\* process_file task per file (main, lines 186-193)
Init ==
    /\ InitIdle
    /\ pc = [f \in Files |-> "start"]
    /\ running = 0
    /\ session = [f \in Files |-> "unopened"]
    /\ sem = [f \in Files |-> 0]
    /\ retry = [f \in Files |-> 0]
    /\ file = [f \in Files |-> OrigContent]
    /\ bak = [f \in Files |-> NoFile]
    /\ newContent = [f \in Files |-> <<>>]
    /\ preContent = [f \in Files |-> <<>>]

Next ==
    \/ \E f \in Files : Start(f)
    \/ \E f \in Files : ReadDone(f)
    \/ \E f \in Files : Extracted(f)
    \/ \E f \in Files : GenAcquire(f)
    \/ \E f \in Files : GenResponse(f)
    \/ \E f \in Files : GenWake(f)
    \/ \E f \in Files : AfterGen(f)
    \/ \E f \in Files : SumCall(f)
    \/ \E f \in Files : SumWake(f)
    \/ \E f \in Files : Chunk(f)
    \/ \E f \in Files : Insert(f)
    \/ \E f \in Files : BkRemoveStale(f)
    \/ \E f \in Files : BkCopy(f)
    \/ \E f \in Files : BkOpenDone(f)
    \/ \E f \in Files : BkWriteDone(f)
    \/ \E f \in Files : BkRollback(f)
    \/ \E f \in Files : BkCancel(f)
    \/ \E f \in Files : Finish(f)
    \/ \E f \in Files : TaskCancel(f)
    \/ MainCollect
    \/ MainReport

Spec == Init /\ [][Next]_vars

\* the whole run under fair scheduling: the event loop resumes a task that
\* is ready, every request ends with a response, an error or the timeout of
\* the session, every sleep ends
SpecFair == Init /\ [][Next]_vars /\ WF_vars(Next)

\* ------------------------------------------------------------------
\* the tasks whose result main has taken from as_completed
Collected(f) ==
    /\ pc[f] \in {"returned", "raised"}
    /\ \A i \in 1..Len(completed) : completed[i] # f
\* the generation-service calls in flight
InFlight == {f \in Files : pc[f] = "gen_call"}
\* how many entries of documentation_data come from f
Entries(f) == Cardinality({i \in 1..Len(documentation_data) : documentation_data[i] = f})

\* C1: when backup_file returns after a failure of its write step (the open
\* for writing or the write, after the backup copy was made), the file holds
\* the content it had when backup_file was called and no backup file exists.
C1_MutatorAtomicity ==
    \A f \in Files :
        (pc[f] = "bk_returned" /\ "write_error" \in logged[f])
            => (file[f] = preContent[f] /\ bak[f] = NoFile)

\* a call whose write step failed has returned, with a new content that
\* differs from the content of the file
C1_Witness ==
    \E f \in Files :
        /\ pc[f] = "bk_returned"
        /\ "write_error" \in logged[f]
        /\ preContent[f] # <<>>
        /\ newContent[f] # preContent[f]

\* C2: the number of generation-service calls in flight never exceeds the
\* configured concurrency C.
C2_BoundedConcurrency == Cardinality(InFlight) <= Concurrency

\* C3: fetch_documentation never makes more than `retry` calls, and when
\* every call returned no response it has made exactly `retry` calls when
\* it returns, and it returns None.
C3_RetryBound ==
    \A f \in Files :
        /\ calls[f] <= retry[f]
        /\ (pc[f] = "after_gen" /\ fails[f] = calls[f])
              => (calls[f] = retry[f] /\ doc[f] = "none")

\* fetch_documentation has returned after MaxRetry calls that all failed
C3_Witness ==
    \E f \in Files :
        /\ pc[f] = "after_gen"
        /\ retry[f] = MaxRetry
        /\ fails[f] = retry[f]
        /\ calls[f] = retry[f]

\* C4: a response with status 200 whose body cannot be parsed is never
\* followed by another attempt: fetch_documentation is in its backoff sleep
\* (about to retry) only when every call so far returned no response.
C4_BadPayloadNotRetried ==
    \A f \in Files : pc[f] = "gen_sleep" => fails[f] = calls[f]

\* C5: an exception of one file's pipeline never stops main before it has
\* taken the result of every other file.
C5_ErrorIsolation ==
    mainpc = "aborted" => \A f \in Files : Collected(f)

\* C6: a file whose write failed inside backup_file ends Failed and gives
\* no entry to documentation_data.
C6_WriteFailureIsFailed ==
    \A f \in Files :
        ("write_error" \in logged[f] /\ pc[f] = "returned")
            => (outcome[f] = "failed" /\ Entries(f) = 0)

\* C7: once the inserter has failed for a file, no backup is created, the
\* file keeps its content and the file does not end Done.
C7_InsertFailureUntouched ==
    \A f \in Files :
        "insert_error" \in logged[f]
            => (bak[f] = NoFile /\ file[f] = preContent[f] /\ outcome[f] # "done")

\* C8: a task cancelled while backup_file awaits the write ends with the
\* file holding the whole new content or the content it had before the call.
C8_NoHalfWrittenFile ==
    [][\A f \in Files :
          (pc[f] = "bk_write" /\ pc'[f] = "cancelled")
              => file'[f] \in {newContent[f], preContent[f]}]_vars

\* C9: when main has stopped collecting, every file whose pipeline returned
\* documentation has exactly one entry in documentation_data.
C9_EachResultOnce ==
    mainpc \in {"done", "no_data", "aborted"}
        => \A f \in Files : outcome[f] = "done" => Entries(f) = 1

\* C10: the collection handed to the report renderer holds an entry for
\* every discovered file.
C10_EveryFileRecorded ==
    mainpc = "done"
        => \A f \in Files : \E i \in 1..Len(report) : report[i].file = f

\* the payloads that hold no element
ZeroElementPayloads == {"empty_obj", "no_elements"}

\* C11: a file for which fetch_documentation returned a payload holding no
\* elements is never treated as failed.
C11_EmptyResultIsValid ==
    \A f \in Files : doc[f] \in ZeroElementPayloads => outcome[f] # "failed"

\* C12: a file whose extracted structure holds no element ends Skipped at
\* the check of the structure: no generation call follows.
C12_EmptyStructureSkipped ==
    [][\A f \in Files :
          (pc[f] = "extracted" /\ structure[f] = "no_elements" /\ pc'[f] # "extracted")
              => (pc'[f] = "returned" /\ outcome'[f] = "skipped")]_vars

\* the positions of a task inside fetch_documentation
FetchPositions == {"gen_acquire", "gen_call", "gen_sleep"}
\* every attempt of the generation call for f has failed
Exhausted(f) == doc[f] = "none" /\ Len(delays[f]) = retry[f] /\ retry[f] > 0

\* C13: fetch_documentation always returns; when every attempt has failed
\* the file ends Failed; and a Failed file has no backup and its content is
\* the one it had (backup_file was never called for it).
C13_ExhaustedFails ==
    /\ \A f \in Files : (pc[f] \in FetchPositions) ~> (pc[f] = "after_gen")
    /\ \A f \in Files : (pc[f] = "after_gen" /\ Exhausted(f)) ~> (outcome[f] = "failed")
    /\ [](\A f \in Files :
            outcome[f] = "failed"
                => /\ pc[f] = "returned"
                   /\ bak[f] = NoFile
                   /\ file[f] = OrigContent
                   /\ newContent[f] = <<>>)

\* a file has ended Failed after DefaultRetry attempts that all failed
C13_Witness ==
    \E f \in Files :
        /\ outcome[f] = "failed"
        /\ Exhausted(f)
        /\ delays[f] = <<1, 2, 4>>

\* the positions at which a task is inside `async with semaphore`
GatePositions == {"gen_call", "gen_sleep", "sum_sleep"}

\* C14: a task that is not inside the gated block of fetch_documentation or
\* summarize_text holds no permit: all C permits of the semaphore made for
\* its call are free.
C14_GateReleased ==
    \A f \in Files :
        (session[f] # "unopened" /\ pc[f] \notin GatePositions) => sem[f] = Concurrency

\* a call has left the gate by an exception raised inside the gated block
\* (the task was cancelled during the backoff sleep)
C14_Witness ==
    \E f \in Files :
        /\ pc[f] = "cancelled"
        /\ session[f] = "closed"
        /\ Len(delays[f]) = attempt[f] + 1

\* the delay the retry policy prescribes after failed attempt k (base = 1)
Backoff(k) == 1 * 2 ^ k

\* C15: in fetch_documentation the delay slept after failed attempt k
\* (counted from 0) is Backoff(k); an attempt that is not the first one
\* comes after one delay per earlier attempt; and after `retry` failed
\* attempts no further attempt is made and the call returns None.
C15_ExponentialBackoff ==
    \A f \in Files :
        /\ \A k \in 0..(Len(delays[f]) - 1) : delays[f][k + 1] = Backoff(k)
        /\ pc[f] = "gen_call" => Len(delays[f]) = calls[f] - 1
        /\ pc[f] \in {"gen_acquire", "gen_call"} => Len(delays[f]) < retry[f]
        /\ (pc[f] = "after_gen" /\ Len(delays[f]) = retry[f]) => doc[f] = "none"

\* a call with retry = MaxRetry has returned after MaxRetry failed attempts
C15_Witness ==
    \E f \in Files :
        /\ pc[f] = "after_gen"
        /\ retry[f] = MaxRetry
        /\ Len(delays[f]) = MaxRetry
        /\ delays[f][3] = 4

\* strings joined with single spaces
RECURSIVE JoinWithSpaces(_)
JoinWithSpaces(strings) ==
    IF strings = <<>> THEN <<>>
    ELSE IF Len(strings) = 1 THEN strings[1]
    ELSE strings[1] \o <<" ">> \o JoinWithSpaces(Tail(strings))
\* c is made of whole consecutive sentences of the text
WholeSentences(c) ==
    \E a \in 1..(Len(text) + 1), b \in 0..Len(text) : c = JoinWithSpaces(SubSeq(text, a, b))
\* c is one sentence of the text
OneSentence(c) == \E a \in 1..Len(text) : c = text[a]

C17_ChunkRoundTrip ==
    (fnpc = "chunk_done" /\ max_length > 0)
        => /\ JoinWithSpaces(chunks) = JoinWithSpaces(text)
           /\ \A i \in 1..Len(chunks) : chunks[i] # <<>>

\* C18: chunk_text called with max_length <= 0 does not return chunks.
C18_NonPositiveLengthIsError ==
    (fnpc = "chunk_done" /\ max_length <= 0) => chunks = <<"Error">>

\* every docstring and the summary of the documentation are empty or absent
AllDocsEmpty(d) ==
    /\ d.summary \in {"absent", ""}
    /\ \A i \in 1..Len(d.functions) : d.functions[i].docstring = ""
\* the text without the comment lines an inserter wrote (each with the line
\* break that ends it)
RECURSIVE StripInserted(_)
StripInserted(c) ==
    IF c = <<>> THEN <<>>
    ELSE IF Head(c).kind = "doc"
         THEN IF Len(c) > 1 /\ c[2].kind = "nl"
              THEN StripInserted(Tail(Tail(c)))
              ELSE StripInserted(Tail(c))
    ELSE <<Head(c)>> \o StripInserted(Tail(c))

\* C19: the insertion operation of every adapter, called with documentation
\* whose docstrings and summary are all empty or absent, returns the source
\* text unchanged.
C19_NoOpInsertion ==
    (fnpc = "insert_done" /\ AllDocsEmpty(documentation)) => modified_code = code

\* C20: for every adapter, the output of the insertion operation without
\* the comment lines it added is the source text.
C20_InsertionPreservesCode ==
    fnpc = "insert_done" => StripInserted(modified_code) = code

\* the names of the elements of a source text
ElementNames(c) == {c[i].name : i \in {j \in 1..Len(c) : c[j].kind = "decl"}}
\* the documentation without the entries whose name is the name of no
\* element of the source text
RECURSIVE MatchedEntries(_, _)
MatchedEntries(entries, c) ==
    IF entries = <<>> THEN <<>>
    ELSE IF Head(entries).name \in ElementNames(c)
         THEN <<Head(entries)>> \o MatchedEntries(Tail(entries), c)
    ELSE MatchedEntries(Tail(entries), c)
WithoutUnmatched(d, c) == [d EXCEPT !.functions = MatchedEntries(d.functions, c)]
HasUnmatchedEntry(d, c) == \E i \in 1..Len(d.functions) : d.functions[i].name \notin ElementNames(c)
NameAdapters == {"python", "java", "go", "cpp"}

\* C21: when the documentation carries an entry whose name is the name of
\* no element of the source text, the insertion operation returns what it
\* returns without that entry, and every element of the source text is
\* still in the output, as it was declared.
C21_UnmatchedNameIgnored ==
    (fnpc = "insert_done" /\ adapter \in NameAdapters /\ HasUnmatchedEntry(documentation, code))
        => /\ modified_code = InsertDocumentation(adapter, code, WithoutUnmatched(documentation, code))
           /\ Declarations(modified_code) = Declarations(code)

\* main.py lines 139-150 hand the payload of the service to the inserter
\* as its documentation argument; the inserters read the keys 'summary'
\* (css_parser.py line 48, html_parser.py line 42) and 'functions'
\* (python_parser.py line 77, java_parser.py line 118, go_parser.py line 94)
\* of it and no other key modelled here
AsDocumentation(payload) ==
    [summary |-> IF "summary" \in DOMAIN payload THEN payload.summary ELSE "absent",
     functions |-> IF "functions" \in DOMAIN payload THEN payload.functions ELSE <<>>]
\* the payload of the scenario: one element, named as the function of the
\* file, with a description
AddPayload == [elements |-> <<[name |-> "f", description |-> "D"]>>]
\* the file of the scenario: one function
AddSource == <<Decl("f", "a"), NL>>
\* a documentation comment with the text t stands in the body of the
\* definition def of a Python text
PyAttached(c, def, t) ==
    \E i \in 1..(Len(c) - 2) : c[i] = def /\ c[i + 1] = NL /\ c[i + 2] = Doc(t)

\* C22: the Python insertion, called on a file with one function and with
\* the payload {elements: [{name, description}]} the service returned for
\* it, returns a text in which the description is attached to the function
\* and the function's name and parameter list are unchanged.
C22_EndToEndAnnotated ==
    (/\ fnpc = "insert_done"
     /\ adapter = "python"
     /\ code = AddSource
     /\ documentation = AsDocumentation(AddPayload))
        => /\ PyAttached(modified_code, Decl("f", "a"), AddPayload.elements[1].description)
           /\ Declarations(modified_code) = Declarations(code)

\* the stage a pipeline has reached, by its position in process_file:
\* 0 Discovered, 1 Extracted, 2 Generated, 3 Merged, 4 Inserted, 5 Written,
\* 6 Done
StageRank(p) ==
    CASE p \in {"off", "start", "read"} -> 0
      [] p \in {"extracted", "gen_acquire", "gen_call", "gen_sleep"} -> 1
      [] p \in {"after_gen", "sum_acquire", "sum_sleep"} -> 2
      [] p \in {"chunk", "insert"} -> 3
      [] p \in {"bk_start", "bk_copy", "bk_open", "bk_write", "bk_except"} -> 4
      [] p = "bk_returned" -> 5
      [] OTHER -> 6
\* Skipped, Failed or Done, or left by an exception or a cancellation
Terminal(p) == p \in {"returned", "raised", "cancelled"}
BackupPositions == {"bk_start", "bk_copy", "bk_open", "bk_write", "bk_except", "bk_returned"}

\* C23: a pipeline moves along Discovered, Extracted, Generated, Merged,
\* Inserted, Written, Done one stage at a time and in this order; after
\* Skipped, Failed or Done none of its stages runs; and a file is backed up
\* or written only after its generation stage and its insertion stage have
\* succeeded.
C23_StagesInOrder ==
    /\ [][\A f \in Files :
            IF Terminal(pc[f])
            THEN pc'[f] = pc[f]
            ELSE \/ Terminal(pc'[f])
                 \/ StageRank(pc'[f]) = StageRank(pc[f])
                 \/ StageRank(pc'[f]) = StageRank(pc[f]) + 1]_vars
    /\ [](\A f \in Files :
            pc[f] \in BackupPositions
                => ~DocumentationIsFalsy(doc[f]) /\ "insert_error" \notin logged[f])

\* C24: when a call of backup_file fails while it removes a stale backup
\* or while it copies the file to the backup, the content of the file after
\* the call is its content before the call.
C24_RollbackUsesOwnBackup ==
    \A f \in Files :
        (pc[f] = "bk_returned" /\ logged[f] \cap {"remove_error", "copy_error"} # {})
            => file[f] = preContent[f]

\* the number of places of a text at which a docstring of the
\* documentation stands
DocstringPlaces(c, d) ==
    Cardinality({i \in 1..Len(c) :
        /\ c[i].kind = "doc"
        /\ \E j \in 1..Len(d.functions) : c[i].text = d.functions[j].docstring})
\* the number of entries that carry a docstring
DocstringEntries(d) ==
    Cardinality({j \in 1..Len(d.functions) : d.functions[j].docstring # ""})

\* C25: the Go and the C++ insertion put the comment of an entry at one
\* place only, before the first declaration of the name, and return every
\* declaration of the text, a later one of the same name included, as it
\* was.
C25_OverloadsFirstOnly ==
    (fnpc = "insert_done" /\ adapter \in {"go", "cpp"})
        => /\ DocstringPlaces(modified_code, documentation) <= DocstringEntries(documentation)
           /\ Declarations(modified_code) = Declarations(code)

\* the documentation has a docstring for the definition def: an entry of
\* the same name under the same parent
HasOwnDocstring(d, def) ==
    \E j \in 1..Len(d.functions) :
        /\ d.functions[j].name = def.name
        /\ d.functions[j].parent = def.parent
        /\ d.functions[j].docstring # ""

\* C26: the Python insertion finds the definition of an entry by the pair
\* of its parent and its name: a definition of the output carries a
\* docstring of the documentation exactly if the documentation has a
\* docstring for that name under that parent (a method of a class gets the
\* docstring of that method, a function of the top level the docstring of
\* that function).
C26_PythonPairLookup ==
    (fnpc = "insert_done" /\ adapter = "python" /\ PyParses(code))
        => \A i \in 1..Len(code) :
              code[i].kind = "decl"
                  => (HasOwnDocstring(documentation, code[i])
                        <=> \E t \in {"D"} : PyAttached(modified_code, code[i], t))

\* C27: get_language_from_extension gives 'unsupported' for an extension
\* outside the mapping and the same tag for an extension in any case of
\* letters, and the language tag of every file that passed the detection
\* has an extraction branch and an insertion branch in process_file.
C27_EveryLanguageDispatched ==
    /\ \A e \in Extensions :
          /\ Lower(e) \notin DOMAIN LANGUAGE_MAPPING => get_language_from_extension(e) = "unsupported"
          /\ get_language_from_extension(e) = get_language_from_extension(Lower(e))
    /\ \A f \in Files :
          pc[f] \notin {"off", "start"}
              => /\ lang[f] # "unsupported"
                 /\ HasExtractBranch(lang[f])
                 /\ HasInsertBranch(lang[f])

\* C28: the chunking stage of process_file fails on no payload it is
\* given, whether its elements carry a description or not: it is never left
\* by an exception.
C28_ChunkStageTotal ==
    [][\A f \in Files : pc[f] = "chunk" => pc'[f] # "raised"]_vars

C30_RunTerminates ==
    /\ <>(/\ \A f \in Files : pc[f] = "returned"
          /\ mainpc \in {"no_data", "done"})
    /\ \A f \in Files : (pc[f] = "gen_acquire") ~> (pc[f] = "gen_call")

====
